---- MODULE Spec2Model ----
(***************************************************************************)
(* A model of src/src/app.ts: the winston logger and its three transports, *)
(* the morgan request logging adapter, the express middleware stack, the   *)
(* passport bearer strategy, the POST / route and the error-formatting     *)
(* middleware.                                                             *)
(*                                                                         *)
(* One action is one turn of the Node event loop: the code between two     *)
(* suspension points runs to completion.  The suspension points of a       *)
(* request are the reading of its body (express.json, express.urlencoded)  *)
(* and the 'finish' event of its response (morgan).  The bearer verify     *)
(* callback calls done() synchronously and the route handler awaits        *)
(* nothing, so authentication, handler and response are one turn.          *)
(***************************************************************************)
EXTENDS Integers, Sequences, FiniteSets, Bags, TLC

\* Number of requests the server receives (they may all be in flight at once).
NumRequests == 2
\* Number of direct calls of the logger under SpecLogger.
MaxLogCalls == 3

\* JavaScript's undefined for a string-valued attribute.
Undefined == "<undefined>"

-----------------------------------------------------------------------------
(* Logger: app.ts 13-80 *)

\* app.ts 13-19
levels == [error |-> 0, warn |-> 1, info |-> 2, http |-> 3, debug |-> 4]

LevelNames == DOMAIN levels

\* The values process.env.NODE_ENV may have when the process starts.
NodeEnvs == {Undefined, "", "development", "production"}

\* JavaScript's  a || b  on strings: undefined and "" are falsy.
OrElse(a, b) == IF a = Undefined \/ a = "" THEN b ELSE a

\* JavaScript's  a || b  on numbers: 0 stands for undefined and for 0, both falsy.
OrElseNum(a, b) == IF a = 0 THEN b ELSE a

\* app.ts 25-29
level(nodeEnvValue) ==
  LET env == OrElse(nodeEnvValue, "development")
      isDevelopment == env = "development"
  IN  IF isDevelopment THEN "debug" ELSE "warn"

\* skip with the comparison inverted.
skipInverted(nodeEnvValue) ==
  LET env == OrElse(nodeEnvValue, "development")
  IN  env = "development"

\* app.ts 93-96
skip(nodeEnvValue) ==
  LET env == OrElse(nodeEnvValue, "development")
  IN  env # "development"

\* The transports with the error file left without its level.
transportsNoErrorLevel ==
  [console  |-> [level |-> Undefined],
   errorLog |-> [level |-> Undefined],
   allLog   |-> [level |-> Undefined]]

\* app.ts 60-71: a transport has its own level or none.
transports ==
  [console  |-> [level |-> Undefined],
   errorLog |-> [level |-> "error"],
   allLog   |-> [level |-> Undefined]]

SinkNames == DOMAIN transports

\* winston: a transport writes a record when the record's level is at or above
\* the transport's level, or the logger's level when the transport has none.
TransportAccepts(t, loggerLevel, lvl) ==
  LET effective == IF transports[t].level # Undefined THEN transports[t].level
                   ELSE loggerLevel
  IN  levels[effective] >= levels[lvl]

\* One call logger.<lvl>(message): the record goes to every accepting transport.
LoggerLog(s, loggerLevel, rec) ==
  [t \in SinkNames |->
     IF TransportAccepts(t, loggerLevel, rec.level)
     THEN s[t] (+) SetToBag({rec}) ELSE s[t]]

RECURSIVE LoggerLogAll(_, _, _)
LoggerLogAll(s, loggerLevel, recs) ==
  IF recs = <<>> THEN s
  ELSE LoggerLogAll(LoggerLog(s, loggerLevel, Head(recs)), loggerLevel, Tail(recs))

\* A log message: free text, or morgan's line (the tokens the format names).
TextMessage(t) == [text |-> t, method |-> "", url |-> "", status |-> 0]


\* morgan's line ":method :url :status ..." for a request and its response.
HttpMessage(method, url, status) ==
  [text |-> ":method :url :status", method |-> method, url |-> url, status |-> status]

-----------------------------------------------------------------------------
(* Values of a request and of its response *)

\* An optional value is a sequence of length at most one: <<>> is undefined.
\* An object is the set of its <<key, value>> attributes: {} is the empty object.

NoError == [ctor |-> "", status |-> 0, statusCode |-> 0, message |-> ""]

\* body-parser hands the parser's SyntaxError to http-errors' createError(400, e),
\* which sets status and statusCode on that same error object.
createError(code, e) == [e EXCEPT !.status = code, !.statusCode = code]

SyntaxError(message) ==
  [ctor |-> "SyntaxError", status |-> 0, statusCode |-> 0, message |-> message]

\* app.ts 144-157: the code is stored in the attribute  status.
HTTPError(statusCode, message) ==
  [ctor |-> "HTTPError", status |-> statusCode, statusCode |-> 0, message |-> message]

NoEnvelope ==
  [response |-> "",
   error |-> [type |-> "", path |-> "", statusCode |-> 0, message |-> ""]]

NoResponse ==
  [statusCode |-> 200, sent |-> FALSE, kind |-> "none", text |-> "",
   json |-> NoEnvelope, headers |-> {}]

\* req.body as the parsers leave it: the attribute the bearer strategy reads
\* ("" when the body has no access_token).
EmptyBody == [access_token |-> ""]

\* JSON.parse in body-parser's strict mode, on the bodies the clients send.
JSONParse(raw) ==
  CASE raw = "{}" -> [ok |-> TRUE, value |-> EmptyBody, err |-> NoError]
    [] raw = "{\"access_token\":\"abc\"}" ->
         [ok |-> TRUE, value |-> [access_token |-> "abc"], err |-> NoError]
    [] OTHER -> [ok |-> FALSE, value |-> EmptyBody,
                 err |-> SyntaxError("Unexpected token in JSON")]

\* qs.parse on the bodies the clients send; it accepts any text.
QsParse(raw) ==
  IF raw = "access_token=abc" THEN [access_token |-> "abc"] ELSE EmptyBody

\* The request bodies the clients send, with their Content-Type.
Bodies ==
  { [contentType |-> Undefined, raw |-> ""],
    [contentType |-> "application/json", raw |-> "{}"],
    [contentType |-> "application/json", raw |-> "{bad json"],
    [contentType |-> "application/x-www-form-urlencoded", raw |-> "access_token=abc"] }

\* The Authorization header as  value.split(' ') ; <<>> is no header.
Authorizations ==
  { <<>>, <<"Bearer", "abc">>, <<"Bearer", "">>, <<"Basic", "abc">> }

Paths == {"/"}

\* The requests the clients send: POST with every body and every header; GET
\* (no route reads its header) with every body; a bare OPTIONS preflight.
Inputs ==
  [method : {"POST"}, path : Paths, body : Bodies, authorization : Authorizations]
  \cup [method : {"GET"}, path : Paths, body : Bodies, authorization : {<< >>}]
  \cup [method : {"OPTIONS"}, path : Paths,
        body : {[contentType |-> Undefined, raw |-> ""]}, authorization : {<< >>}]

Requests == 1 .. NumRequests

\* The POST / handler as written, or with the throw of line 139 enabled.
HandlerBodies == {"asWritten", "line139"}

VARIABLES
  nodeEnv,      \* process.env.NODE_ENV
  logger,       \* the logger created at load time (app.ts 75-80)
  sinks,        \* what each transport has written, a bag of records
  calls,        \* every call of the logger so far, a bag of records
  handlerBody,  \* which body the POST / handler has
  reqs          \* per request: the request, its response and its position

vars == <<nodeEnv, logger, sinks, calls, handlerBody, reqs>>

\* The state of a request that has not arrived.
Idle(r) ==
  [id |-> r, pc |-> "idle", idx |-> 0, flow |-> "next",
   method |-> "", path |-> "", contentType |-> Undefined, raw |-> "",
   authorization |-> <<>>,
   body |-> EmptyBody, bodyParsed |-> FALSE,
   user |-> <<>>, authInfo |-> <<>>,
   trace |-> <<>>, err |-> NoError, res |-> NoResponse,
   morganListening |-> FALSE, socketDestroyed |-> FALSE,
   pending |-> <<>>, stdout |-> <<>>]

NewRequest(r, in) ==
  [Idle(r) EXCEPT !.method = in.method, !.path = in.path,
                  !.contentType = in.body.contentType, !.raw = in.body.raw,
                  !.authorization = in.authorization]

Enter(c, stage) == [c EXCEPT !.trace = Append(@, stage), !.flow = "next"]

\* res.end / res.send / res.json: the response is written once.
Respond(c, status, kind, text, json) ==
  [c EXCEPT !.res = [@ EXCEPT !.statusCode = status, !.sent = TRUE, !.kind = kind,
                               !.text = text, !.json = json],
            !.flow = "end"]

-----------------------------------------------------------------------------
(* The middleware stack: app.ts 110-120 *)

\* app.ts 112: cors() with its defaults answers a preflight itself and lets
\* every other request through with the allow-origin header.
cors(c) ==
  LET e == Enter(c, "cors")
      h == [e EXCEPT !.res.headers = @ \cup {"Access-Control-Allow-Origin"}]
  IN  IF c.method = "OPTIONS" THEN Respond(h, 204, "none", "", NoEnvelope) ELSE h

\* app.ts 113: helmet() sets its response headers and calls next().
helmet(c) ==
  LET e == Enter(c, "helmet")
  IN  [e EXCEPT !.res.headers = @ \cup {"X-Content-Type-Options", "X-Frame-Options"}]

\* The part of a body parser that runs when the middleware is called: it passes
\* the request on, or starts to read the body and suspends.
ParserStart(c, stage, type, waitPc) ==
  LET e == Enter(c, stage)
  IN  IF c.bodyParsed \/ c.raw = "" \/ c.contentType # type
      THEN e
      ELSE [e EXCEPT !.flow = "wait", !.pc = waitPc]

\* app.ts 114
jsonParser(c) == ParserStart(c, "json", "application/json", "jsonRead")

\* app.ts 115-119
urlencodedParser(c) ==
  ParserStart(c, "urlencoded", "application/x-www-form-urlencoded", "formRead")

\* express.json forwarding the bare SyntaxError, without a status.
jsonParsedStatus500(c) ==
  LET p == JSONParse(c.raw)
  IN  IF p.ok THEN [c EXCEPT !.body = p.value, !.bodyParsed = TRUE, !.flow = "next"]
      ELSE [c EXCEPT !.err = p.err, !.flow = "next"]

\* express.json once the body is read: req.body on success, next(err) with
\* createError(400, err) on a parse failure.
jsonParsed(c) ==
  LET p == JSONParse(c.raw)
  IN  IF p.ok THEN [c EXCEPT !.body = p.value, !.bodyParsed = TRUE, !.flow = "next"]
      ELSE [c EXCEPT !.err = createError(400, p.err), !.flow = "next"]

\* express.urlencoded once the body is read.
urlencodedParsed(c) ==
  [c EXCEPT !.body = QsParse(c.raw), !.bodyParsed = TRUE, !.flow = "next"]

\* app.ts 99-108, 120: morgan (not immediate) listens for the end of the
\* response and calls next().
morganMiddleware(c) == [Enter(c, "morgan") EXCEPT !.morganListening = TRUE]

\* morgan's listener when the response has finished: nothing when skip()
\* says so, else one line written to the stream (app.ts 83-86), logger.http.
morganLogRequest(c, nodeEnvValue) ==
  IF c.morganListening /\ ~skip(nodeEnvValue)
  THEN << [level |-> "http", req |-> c.id,
           message |-> HttpMessage(c.method, c.path, c.res.statusCode)] >>
  ELSE << >>

-----------------------------------------------------------------------------
(* Authentication: app.ts 126-136 *)

\* A verify callback that calls done(null, false).
verifyRejectsAll(token) ==
  [err |-> NoError, user |-> << >>, info |-> << >>,
   stdout |-> <<"HELLLLOOO ::::", token>>]

\* app.ts 127-132: the verify callback, done(null, user, {scope: "all"}).
verify(token) ==
  [err |-> NoError, user |-> << {} >>, info |-> << {<<"scope", "all">>} >>,
   stdout |-> <<"HELLLLOOO ::::", token>>]

\* The token passport-http-bearer takes from a request: from the Authorization
\* header ("Bearer <token>") or from the body's access_token.  status is the
\* failure it reports at once (400), or 0.
BearerToken(c) ==
  LET parts == c.authorization
      badHeader == parts # << >> /\ Len(parts) # 2
      fromHeader == IF Len(parts) = 2 /\ parts[1] = "Bearer" THEN parts[2] ELSE ""
      both == fromHeader # "" /\ c.body.access_token # ""
  IN  [status |-> IF badHeader \/ both THEN 400 ELSE 0,
       token  |-> IF fromHeader # "" THEN fromHeader ELSE c.body.access_token]

\* An authentication that calls verify without having found a token.
authenticateAcceptsMissing(c) ==
  LET e == Enter(c, "authenticate")
      v == verify(BearerToken(c).token)
  IN  [e EXCEPT !.user = v.user, !.authInfo = v.info, !.stdout = @ \o <<v.stdout>>]

\* app.ts 136: passport.authenticate("bearer", {session: false}).  A failure
\* of the strategy ends the response with its status (401 with the challenge
\* when there is no token, 400 for a bad header or two tokens); a success sets
\* req.user and req.authInfo and calls next().
authenticate(c) ==
  LET e == Enter(c, "authenticate")
      t == BearerToken(c)
      v == verify(t.token)
  IN  IF t.status # 0
      THEN Respond(e, t.status, "text", "Bad Request", NoEnvelope)
      ELSE IF t.token = ""
      THEN Respond([e EXCEPT !.res.headers = @ \cup {"WWW-Authenticate"}],
                   401, "text", "Unauthorized", NoEnvelope)
      ELSE IF v.user = << >>
      THEN Respond([e EXCEPT !.res.headers = @ \cup {"WWW-Authenticate"},
                             !.stdout = @ \o <<v.stdout>>],
                   401, "text", "Unauthorized", NoEnvelope)
      ELSE [e EXCEPT !.user = v.user, !.authInfo = v.info,
                     !.stdout = @ \o <<v.stdout>>]

-----------------------------------------------------------------------------
(* The route handler: app.ts 122-142 *)

\* The handler registered without asyncWrapper: a rejection is left unhandled.
handlerWithoutWrapper(c, body) ==
  LET e == [Enter(c, "handler")
              EXCEPT !.pending = @ \o << [level |-> "debug", req |-> c.id,
                                          message |-> TextMessage("foo")] >>]
  IN  IF body = "line139"
      THEN [e EXCEPT !.err = HTTPError(400, "FOO NOT FOUND"), !.flow = "hang"]
      ELSE Respond(e, e.res.statusCode, "text", "Express + TypeScript Server", NoEnvelope)

\* The handler without its res.send.
handlerNoSend(c, body) ==
  LET e == [Enter(c, "handler")
              EXCEPT !.pending = @ \o << [level |-> "debug", req |-> c.id,
                                          message |-> TextMessage("foo")] >>]
  IN  IF body = "line139"
      THEN [e EXCEPT !.err = HTTPError(400, "FOO NOT FOUND")]
      ELSE [e EXCEPT !.flow = "hang"]

\* app.ts 137-141 inside asyncWrapper (122-124): logger.debug("foo"), then the
\* response; with line 139 enabled the throw rejects the handler's promise and
\* .catch(next) forwards the error.
handler(c, body) ==
  LET e == [Enter(c, "handler")
              EXCEPT !.pending = @ \o << [level |-> "debug", req |-> c.id,
                                          message |-> TextMessage("foo")] >>]
  IN  IF body = "line139"
      THEN [e EXCEPT !.err = HTTPError(400, "FOO NOT FOUND")]
      ELSE Respond(e, e.res.statusCode, "text", "Express + TypeScript Server", NoEnvelope)

\* app.ts 134-142: the route's own stack, authentication and then the handler.
route(c, body) ==
  LET a == authenticate(c)
  IN  IF a.flow = "next" /\ a.err = NoError THEN handler(a, body) ELSE a

-----------------------------------------------------------------------------
(* The error-formatting middleware: app.ts 159-176 *)

\* app.ts 166, 171:  error.statusCode || 500
errorStatus(error) == OrElseNum(error.statusCode, 500)

\* app.ts 160-164
customError(error) == ~(error.ctor = "NodeError" \/ error.ctor = "SyntaxError")

\* app.ts 167-174
envelope(error, path) ==
  [response |-> "Error",
   error |-> [type |-> IF customError(error) = FALSE THEN "UnhandledError"
                       ELSE error.ctor,
              path |-> path,
              statusCode |-> errorStatus(error),
              message |-> error.message]]

\* app.ts 159-176: the response, then next(error).
errorMiddleware(c) ==
  LET e == Enter(c, "errorMiddleware")
      r == Respond(e, errorStatus(c.err), "json", "", envelope(c.err, c.path))
  IN  [r EXCEPT !.flow = "next"]

\* express's final handler, reached when the stack is exhausted: 404 when no
\* route matched; with an error, its own error page, or, the response being
\* already sent, the destruction of the socket.
finalhandler(c) ==
  IF c.err = NoError
  THEN Respond(c, 404, "text", "Cannot " \o c.method \o " " \o c.path, NoEnvelope)
  ELSE IF c.res.sent
  THEN [c EXCEPT !.socketDestroyed = TRUE, !.flow = "end"]
  ELSE Respond(c, OrElseNum(c.err.status, OrElseNum(c.err.statusCode, 500)),
               "text", "Internal Server Error", NoEnvelope)

-----------------------------------------------------------------------------
(* express's router *)

\* The stack with morgan registered first.
StackMorganFirst ==
  <<"morgan", "cors", "helmet", "json", "urlencoded", "route", "errorMiddleware">>

\* app.ts 112-120, 134, 159: the layers in the order of their registration.
Stack ==
  <<"cors", "helmet", "json", "urlencoded", "morgan", "route", "errorMiddleware">>

\* A layer is called when the request has no error and the layer is no error
\* handler (a route only on its method and path), or when the request has an
\* error and the layer is an error handler.
Applicable(c, layer) ==
  IF layer = "errorMiddleware" THEN c.err # NoError
  ELSE c.err = NoError /\ (layer = "route" => c.method = "POST" /\ c.path = "/")

Layer(layer, c, body) ==
  CASE layer = "cors" -> cors(c)
    [] layer = "helmet" -> helmet(c)
    [] layer = "json" -> jsonParser(c)
    [] layer = "urlencoded" -> urlencodedParser(c)
    [] layer = "morgan" -> morganMiddleware(c)
    [] layer = "route" -> route(c, body)
    [] layer = "errorMiddleware" -> errorMiddleware(c)

\* next(): the layers from position i on, until one suspends or ends the
\* response without calling next().
RECURSIVE Dispatch(_, _, _)
Dispatch(c, i, body) ==
  IF i > Len(Stack) THEN [finalhandler(c) EXCEPT !.idx = i]
  ELSE IF ~Applicable(c, Stack[i]) THEN Dispatch(c, i + 1, body)
  ELSE LET d == Layer(Stack[i], c, body)
       IN  IF d.flow = "next" THEN Dispatch(d, i + 1, body)
           ELSE [d EXCEPT !.idx = i]

\* The end of a turn: a request that did not suspend has its response.
Settle(c) ==
  [c EXCEPT !.pc = IF c.flow = "wait" THEN c.pc
                   ELSE IF c.res.sent THEN "responded" ELSE "hung",
            !.pending = << >>]

RECURSIVE SeqToBag(_)
SeqToBag(recs) ==
  IF recs = << >> THEN EmptyBag ELSE SetToBag({Head(recs)}) (+) SeqToBag(Tail(recs))

\* The logger calls of a turn reach the transports.
Flush(recs) ==
  /\ sinks' = LoggerLogAll(sinks, logger.level, recs)
  /\ calls' = calls (+) SeqToBag(recs)

-----------------------------------------------------------------------------
(* Actions *)

\* A request arrives and runs down the stack.
Receive(r) ==
  /\ reqs[r].pc = "idle"
  /\ \E in \in Inputs :
       LET d == Dispatch(NewRequest(r, in), 1, handlerBody)
       IN  /\ reqs' = [reqs EXCEPT ![r] = Settle(d)]
           /\ Flush(d.pending)
  /\ UNCHANGED <<nodeEnv, logger, handlerBody>>

\* The JSON body of a request has been read.
JsonBodyRead(r) ==
  /\ reqs[r].pc = "jsonRead"
  /\ LET d == Dispatch(jsonParsed(reqs[r]), reqs[r].idx + 1, handlerBody)
     IN  /\ reqs' = [reqs EXCEPT ![r] = Settle(d)]
         /\ Flush(d.pending)
  /\ UNCHANGED <<nodeEnv, logger, handlerBody>>

\* The URL-encoded body of a request has been read.
FormBodyRead(r) ==
  /\ reqs[r].pc = "formRead"
  /\ LET d == Dispatch(urlencodedParsed(reqs[r]), reqs[r].idx + 1, handlerBody)
     IN  /\ reqs' = [reqs EXCEPT ![r] = Settle(d)]
         /\ Flush(d.pending)
  /\ UNCHANGED <<nodeEnv, logger, handlerBody>>

\* The response of a request has finished: morgan's listener runs.
ResponseFinished(r) ==
  /\ reqs[r].pc = "responded"
  /\ reqs' = [reqs EXCEPT ![r].pc = "done"]
  /\ Flush(morganLogRequest(reqs[r], nodeEnv))
  /\ UNCHANGED <<nodeEnv, logger, handlerBody>>

\* A direct call of the logger at any level.
LoggerCall ==
  /\ BagCardinality(calls) < MaxLogCalls
  /\ \E lvl \in LevelNames :
       Flush(<< [level |-> lvl, req |-> 0, message |-> TextMessage("m")] >>)
  /\ UNCHANGED <<nodeEnv, logger, handlerBody, reqs>>

InitCommon ==
  /\ nodeEnv \in NodeEnvs
  /\ logger = [level |-> level(nodeEnv)]
  /\ sinks = [t \in SinkNames |-> EmptyBag]
  /\ calls = EmptyBag
  /\ reqs = [r \in Requests |-> Idle(r)]

\* The program as written.
Init == InitCommon /\ handlerBody = "asWritten"

\* The program with line 139 enabled.
InitThrow == InitCommon /\ handlerBody = "line139"

Next ==
  \E r \in Requests :
    \/ Receive(r)
    \/ JsonBodyRead(r)
    \/ FormBodyRead(r)
    \/ ResponseFinished(r)

Spec == Init /\ [][Next]_vars

SpecThrow == InitThrow /\ [][Next]_vars

SpecLogger == Init /\ [][LoggerCall]_vars

-----------------------------------------------------------------------------
(* Properties *)

Ran(c, stage) == \E i \in DOMAIN c.trace : c.trace[i] = stage

ToRoute(c) == c.method = "POST" /\ c.path = "/"

\* The token a request presents in its Authorization header, if any.
HeaderCredential(c) ==
  IF Len(c.authorization) >= 2 /\ c.authorization[1] = "Bearer"
  THEN {c.authorization[2]} ELSE {}

\* The token a request presents in its body, if any.
BodyCredential(c) ==
  IF c.raw = "access_token=abc" \/ c.raw = "{\"access_token\":\"abc\"}"
  THEN {"abc"} ELSE {}

BadJson(c) == c.contentType = "application/json" /\ c.raw = "{bad json"

\* The records of a level that the logger was called with for a request.
CallsOf(r, lvl) == {rec \in BagToSet(calls) : rec.req = r /\ rec.level = lvl}

\* The records of a level that any transport has written.
Written(lvl) == {rec \in UNION {BagToSet(sinks[t]) : t \in SinkNames} : rec.level = lvl}

Envelope(c) ==
  /\ c.res.sent
  /\ c.res.kind = "json"
  /\ c.res.json.response = "Error"
  /\ c.res.json.error.path = c.path
  /\ c.res.json.error.message = c.err.message
  /\ c.res.json.error.statusCode = c.res.statusCode

C2_AuthenticatedPostIs200 ==
  \A r \in Requests :
    LET c == reqs[r]
    IN  (ToRoute(c) /\ c.user # << >>) =>
          /\ c.res.sent /\ c.res.statusCode = 200
          /\ c.res.kind = "text" /\ c.res.text = "Express + TypeScript Server"
          /\ ~Ran(c, "errorMiddleware")

C2_Witness ==
  \E r1, r2 \in Requests :
    /\ reqs[r1].user # << >> /\ reqs[r1].raw = "{}" /\ reqs[r1].res.statusCode = 200
    /\ reqs[r2].user # << >> /\ reqs[r2].raw = "" /\ reqs[r2].res.statusCode = 200

\* C3 as stated: a JSON body that fails to parse is answered with the error
\* envelope, status 500 and error.statusCode 500, type "UnhandledError", and
\* the handler does not run.
C3_ParseErrorIs500 ==
  \A r \in Requests :
    LET c == reqs[r]
    IN  (BadJson(c) /\ c.res.sent) =>
          /\ Envelope(c)
          /\ c.res.statusCode = 500 /\ c.res.json.error.statusCode = 500
          /\ c.res.json.error.type = "UnhandledError"
          /\ ~Ran(c, "handler")

\* C3 amended: a JSON body that fails to parse is answered with the error
\* envelope, status 400 and error.statusCode 400 (the parser's own code), type
\* "UnhandledError", and the handler does not run.
C3_ParseErrorIs400 ==
  \A r \in Requests :
    LET c == reqs[r]
    IN  /\ (BadJson(c) /\ c.pc \in {"responded", "done"}) =>
             /\ Envelope(c)
             /\ c.res.statusCode = 400 /\ c.res.json.error.statusCode = 400
             /\ c.res.json.error.type = "UnhandledError"
        /\ BadJson(c) => ~Ran(c, "handler") /\ c.pc # "hung"

C3_Witness ==
  \E r \in Requests : BadJson(reqs[r]) /\ reqs[r].res.sent /\ reqs[r].method = "POST"

\* C4: an error thrown in the handler with an explicit status code (the
\* HTTPError of line 139, 400) is answered with that code, as the status and as
\* error.statusCode, and with the error's own type name.
C4_ThrownStatusHonoured ==
  \A r \in Requests :
    LET c == reqs[r]
    IN  (c.err.ctor = "HTTPError" /\ c.res.sent) =>
          /\ c.res.statusCode = c.err.status
          /\ c.res.json.error.statusCode = c.err.status
          /\ c.res.json.error.type = "HTTPError"

\* The one "http" record of a request: POST, /, 200, called once and written
\* once to the console and once to the combined file.
OneHttpLine(r, status) ==
  LET rec == [level |-> "http", req |-> r, message |-> HttpMessage("POST", "/", status)]
  IN  /\ CallsOf(r, "http") = {rec}
      /\ CopiesIn(rec, calls) = 1
      /\ CopiesIn(rec, sinks.console) = 1
      /\ CopiesIn(rec, sinks.allLog) = 1

Successful(c) == c.pc = "done" /\ c.method = "POST" /\ c.res.statusCode = 200

\* C5 as stated: with NODE_ENV "development" or unset every successful request
\* has exactly one "http" record (POST, /, 200); with any other value no
\* "http" record reaches any transport.
C5_HttpLineDevOrUnset ==
  IF nodeEnv \in {"development", Undefined}
  THEN \A r \in Requests : Successful(reqs[r]) => OneHttpLine(r, 200)
  ELSE Written("http") = {}

\* C5 amended: with NODE_ENV "development", unset or empty every successful
\* request has exactly one "http" record (POST, /, 200), and none before its
\* response has finished; with any other value no "http" record reaches any
\* transport.
C5_HttpLineDevUnsetOrEmpty ==
  IF nodeEnv \in {"development", Undefined, ""}
  THEN \A r \in Requests :
         /\ Successful(reqs[r]) => OneHttpLine(r, 200)
         /\ reqs[r].pc # "done" => CallsOf(r, "http") = {}
  ELSE Written("http") = {}

C5_Witness ==
  /\ nodeEnv = ""
  /\ \A r \in Requests : Successful(reqs[r]) /\ OneHttpLine(r, 200)

\* The stages of a request in the order the claim gives them.
StageOrder ==
  <<"cors", "helmet", "json", "urlencoded", "morgan", "authenticate", "handler">>

\* C6: the stages a request has run are, in this order, cors, helmet, json,
\* urlencoded, morgan, authenticate, handler, with none left out before the
\* last one run, and the error-formatting middleware only last and only on an
\* error; a parse failure goes from json straight to the error-formatting
\* middleware; a POST / that was answered without the handler was ended by an
\* earlier stage. This holds while other requests are in flight.
C6_StageOrder ==
  \A r \in Requests :
    LET c == reqs[r]
        t == c.trace
    IN  /\ \A i \in DOMAIN t :
             IF t[i] = "errorMiddleware"
             THEN i = Len(t) /\ c.err # NoError
             ELSE i <= Len(StageOrder) /\ t[i] = StageOrder[i]
        /\ c.err.ctor = "SyntaxError" =>
             t = <<"cors", "helmet", "json", "errorMiddleware">>
        /\ (ToRoute(c) /\ c.res.sent /\ ~Ran(c, "handler")) =>
             \/ c.err # NoError /\ Ran(c, "errorMiddleware")
             \/ Ran(c, "authenticate") /\ c.res.statusCode \in {400, 401}
        /\ (c.pc \in {"responded", "done"} /\ c.err = NoError /\ c.method # "OPTIONS") =>
             SubSeq(t, 1, 5) = SubSeq(StageOrder, 1, 5)

C6_Witness ==
  \E r1, r2 \in Requests :
    /\ reqs[r1].pc = "formRead"
    /\ reqs[r2].err.ctor = "SyntaxError" /\ Ran(reqs[r2], "errorMiddleware")
    /\ reqs[r2].pc = "responded"

Failed(c) ==
  \/ c.err # NoError
  \/ Ran(c, "authenticate") /\ c.user = << >>

\* C7 as stated: a request that fails in body parsing, in authentication or
\* in the handler reaches the error-formatting middleware and is answered with
\* the error envelope.
C7_EveryFailureEnveloped ==
  \A r \in Requests :
    LET c == reqs[r]
    IN  Failed(c) => Ran(c, "errorMiddleware") /\ Envelope(c)

\* C7 amended: a request that fails in body parsing or in the handler reaches
\* the error-formatting middleware and is answered with the error envelope; a
\* request that fails in authentication is answered by the authentication
\* stage with 401 or 400 and a plain status text, and does not reach the
\* error-formatting middleware.
C7_ParseAndHandlerFailuresEnveloped ==
  \A r \in Requests :
    LET c == reqs[r]
    IN  /\ c.err # NoError =>
             /\ Ran(c, "errorMiddleware") /\ Envelope(c)
             /\ c.res.json.error.type \in {"UnhandledError", c.err.ctor}
        /\ (Ran(c, "authenticate") /\ c.user = << >>) =>
             /\ ~Ran(c, "errorMiddleware") /\ c.err = NoError
             /\ c.res.sent /\ c.res.kind = "text"
             /\ c.res.statusCode \in {400, 401}

C7_Witness ==
  \E r1, r2 \in Requests :
    /\ reqs[r1].err.ctor = "HTTPError" /\ Envelope(reqs[r1])
    /\ reqs[r2].err.ctor = "SyntaxError" /\ Envelope(reqs[r2])

Authenticated(c) ==
  /\ c.user = << {} >>
  /\ c.authInfo = << {<<"scope", "all">>} >>
  /\ Ran(c, "handler")

SinksMatch(minimum) ==
  \A rec \in BagToSet(calls) :
    LET n == CopiesIn(rec, calls)
        emitted == levels[rec.level] <= levels[minimum]
    IN  /\ CopiesIn(rec, sinks.console) = IF emitted THEN n ELSE 0
        /\ CopiesIn(rec, sinks.allLog) = IF emitted THEN n ELSE 0
        /\ CopiesIn(rec, sinks.errorLog) = IF rec.level = "error" THEN n ELSE 0

NothingElseWritten ==
  \A t \in SinkNames : BagToSet(sinks[t]) \subseteq BagToSet(calls)

\* C9 as stated: a record reaches the console and the combined file iff its
\* level is at or above the minimum, debug when NODE_ENV is "development" or
\* unset and warn otherwise, and the error file iff its level is error.
C9_SinksDevOrUnset ==
  /\ SinksMatch(IF nodeEnv \in {"development", Undefined} THEN "debug" ELSE "warn")
  /\ NothingElseWritten

\* C9 amended: a record reaches the console and the combined file iff its
\* level is at or above the minimum, debug when NODE_ENV is "development",
\* unset or empty and warn otherwise, and the error file iff its level is
\* error; the error file holds only error records and the combined file
\* holds what the console holds.
C9_SinksDevUnsetOrEmpty ==
  /\ SinksMatch(IF nodeEnv \in {"development", Undefined, ""} THEN "debug" ELSE "warn")
  /\ NothingElseWritten
  /\ \A rec \in BagToSet(sinks.errorLog) : rec.level = "error"
  /\ sinks.allLog = sinks.console

C9_Witness ==
  /\ nodeEnv = "production"
  /\ \E e, w, i \in BagToSet(calls) :
       /\ e.level = "error" /\ w.level = "warn" /\ i.level = "info"
       /\ BagIn(e, sinks.errorLog) /\ BagIn(w, sinks.allLog)
       /\ ~BagIn(i, sinks.console)

\* C10: in development mode every request that the body parsers have seen and
\* whose response has finished has exactly one "http" record, a request whose
\* JSON body failed to parse included.
C10_EveryCycleLogged ==
  \A r \in Requests :
    LET c == reqs[r]
    IN  (nodeEnv = "development" /\ c.pc = "done" /\ Ran(c, "json")) =>
          /\ Cardinality(CallsOf(r, "http")) = 1
          /\ \A rec \in CallsOf(r, "http") : CopiesIn(rec, sinks.console) = 1

====
